---- MODULE Spec2Model ----
(***************************************************************************)
(* Terminal Snippet Runner: the host loop of runner.py (SnippetRunner) and *)
(* the ToDo Manager and JSON Pretty Formatter snippets.                    *)
(*                                                                         *)
(* Spec      the host: catalog load, menu, dispatch loop, with a file      *)
(*           system that changes under it and an operator who types,       *)
(*           interrupts (Ctrl-C) or closes the input (end of file).        *)
(* TodoSpec  the todo snippet's entry point run(args) over its store.      *)
(* JsonSpec  the JSON formatter's entry point run(args) (snippets/        *)
(*           json_formatter.py) over the clipboard and its files.          *)
(***************************************************************************)
EXTENDS Integers, Sequences, FiniteSets, TLC

VARIABLES
    pc,         \* position of the host: AtMenu, choice, command, dispatch, postrun, Terminated, Crashed
    dirExists,  \* snippets_dir.exists()
    files,      \* names of the files directly inside snippets_dir
    snippets,   \* self.snippets, the catalog
    selected,   \* <<>> at the menu, <<idx>> (0-based, as get_choice returns it) while running
    event,      \* what the host last consumed: an input line, an interrupt, end of input, an entry point outcome
    screen,     \* the kinds of message the last host step printed
    diag,       \* the file names the last load printed "Error loading ..." for
    exc,        \* the exception that left SnippetRunner.run, "none" while none has
    todos,      \* the todo store as persisted in data/todos.json
    args,       \* the argument list of the last call of the todo entry point
    out,        \* the kinds of message that call printed
    listed,     \* the rows that call's show_todos printed
    jpc,        \* position of the JSON formatter: idle (not in run), prompt (at its input())
    jargs,      \* the argument list of its last call
    clipboard,  \* the text on the system clipboard
    clipboardOk,\* whether pyperclip finds a copy/paste mechanism on this system
    formatted,  \* <<>> or <<the local formatted>> while run waits at its prompt
    response,   \* what the formatter's prompt last read
    jout,       \* the kinds of message the formatter's last step printed
    jexc        \* the exception that left the formatter's run, "none" if it returned

hostVars == <<pc, dirExists, files, snippets, selected, event, screen, diag, exc>>
todoVars == <<todos, args, out, listed>>
jsonVars == <<jpc, jargs, clipboard, clipboardOk, formatted, response, jout, jexc>>
vars == <<pc, dirExists, files, snippets, selected, event, screen, diag, exc,
          todos, args, out, listed,
          jpc, jargs, clipboard, clipboardOk, formatted, response, jout, jexc>>

(***************************************************************************)
(* Bounds of the model.                                                    *)
(***************************************************************************)
MaxFiles == 2   \* files in the snippets directory at one time
MaxTodos == 3   \* records in the todo store
MaxPri == 2     \* largest priority a record may reach, and largest priority typed

(***************************************************************************)
(* Text.  A token is a whitespace-free piece of a line: a word (with or    *)
(* without upper-case letters) or the decimal numeral of an integer.       *)
(* A line is its tokens plus whether blanks surround them.                 *)
(***************************************************************************)
W(s) == [k |-> "w", s |-> s, v |-> 0, up |-> FALSE]
U(s) == [k |-> "w", s |-> s, v |-> 0, up |-> TRUE]
N(v) == [k |-> "n", s |-> "", v |-> v, up |-> FALSE]

Line(ws, pad) == [words |-> ws, pad |-> pad]

\* str.strip(): the surrounding blanks go
strip(l) == [l EXCEPT !.pad = FALSE]

\* str.lower() of a token and of a line
lowerTok(t) == [t EXCEPT !.up = FALSE]
lower(l) == [l EXCEPT !.words = [i \in 1..Len(l.words) |-> lowerTok(l.words[i])]]

\* str.split(): the tokens, case kept
split(l) == l.words

\* the string literal 'w'
Lit(w) == Line(<<W(w)>>, FALSE)

\* int(s): defined on one numeral (blanks around it allowed), ValueError otherwise
intOk(l) == Len(l.words) = 1 /\ l.words[1].k = "n"
int(l) == l.words[1].v

NoLine == Line(<<>>, FALSE)
NoEvent == [at |-> "none", kind |-> "none", line |-> NoLine]
Typed(at, l) == [at |-> at, kind |-> "line", line |-> l]
Signal(at, kind) == [at |-> at, kind |-> kind, line |-> NoLine]

(***************************************************************************)
(* The files that may appear in the snippets directory.  A file's name     *)
(* decides whether glob("*.py") yields it and whether it starts with "_";  *)
(* its content decides what exec_module does and what the module exposes.  *)
(***************************************************************************)
Str(ord) == [kind |-> "str", ord |-> ord]    \* a string title; ord is its rank in string order
Num(ord) == [kind |-> "int", ord |-> ord]    \* a title bound to an integer

PyFile(name, stem, py, us, load, hasT, hasD, hasR, title, callable) ==
    [name |-> name, stem |-> stem, py |-> py, underscore |-> us, load |-> load,
     hasTitle |-> hasT, hasDescription |-> hasD, hasRun |-> hasR,
     title |-> title, description |-> stem, callable |-> callable]

Universe ==
    { PyFile("apple.py",    "apple",    TRUE,  FALSE, "ok",    TRUE,  TRUE,  TRUE,  Str(1), TRUE),
      PyFile("zebra.py",    "zebra",    TRUE,  FALSE, "ok",    TRUE,  TRUE,  TRUE,  Str(2), TRUE),
      PyFile("dup.py",      "dup",      TRUE,  FALSE, "ok",    TRUE,  TRUE,  TRUE,  Str(1), TRUE),
      PyFile("broken.py",   "broken",   TRUE,  FALSE, "error", FALSE, FALSE, FALSE, Str(0), FALSE),
      PyFile("norun.py",    "norun",    TRUE,  FALSE, "ok",    TRUE,  TRUE,  FALSE, Str(3), FALSE),
      PyFile("notitle.py",  "notitle",  TRUE,  FALSE, "ok",    FALSE, TRUE,  TRUE,  Str(0), TRUE),
      PyFile("_private.py", "_private", TRUE,  TRUE,  "ok",    TRUE,  TRUE,  TRUE,  Str(4), TRUE),
      PyFile("notes.txt",   "notes",    FALSE, FALSE, "ok",    TRUE,  TRUE,  TRUE,  Str(5), TRUE),
      PyFile("numtitle.py", "numtitle", TRUE,  FALSE, "ok",    TRUE,  TRUE,  TRUE,  Num(7), TRUE),
      PyFile("badrun.py",   "badrun",   TRUE,  FALSE, "ok",    TRUE,  TRUE,  TRUE,  Str(6), FALSE) }

FileNames == {f.name : f \in Universe}
File(n) == CHOOSE f \in Universe : f.name = n

\* every order in which the file system may enumerate a set of names
Orders(S) ==
    {s \in [1..Cardinality(S) -> S] : \A i, j \in 1..Cardinality(S) : i # j => s[i] # s[j]}

(***************************************************************************)
(* SnippetRunner.load_snippets                                             *)
(***************************************************************************)
\* snippets_dir.glob("*.py"): the names the pattern matches
glob(S) == {n \in S : File(n).py}

\* hasattr(module, 'TITLE') and hasattr(module, 'DESCRIPTION') and hasattr(module, 'run')
exposes(f) == f.hasTitle /\ f.hasDescription /\ f.hasRun

\* the dictionary appended for an accepted module
entry(f) == [name |-> f.stem, title |-> f.title, description |-> f.description,
             module |-> f.name]

\* the body of the for loop, for the files of enum from position i on
RECURSIVE scan(_, _, _)
scan(enum, i, acc) ==
    IF i > Len(enum) THEN acc
    ELSE LET f == File(enum[i]) IN
         IF f.underscore THEN scan(enum, i + 1, acc)
         ELSE IF f.load = "error"
              THEN scan(enum, i + 1, [acc EXCEPT !.errors = @ \cup {f.name}])
         ELSE IF exposes(f)
              THEN scan(enum, i + 1, [acc EXCEPT !.loaded = Append(@, entry(f))])
         ELSE scan(enum, i + 1, acc)

\* x['title'] < y['title'] is defined between two strings and between two integers,
\* and raises TypeError between a string and an integer
comparable(a, b) == a.kind = b.kind
less(a, b) == a.ord < b.ord

\* list.sort raises TypeError exactly when two keys it must order are not comparable
sortRaises(s) == \E i, j \in 1..Len(s) : ~comparable(s[i].title, s[j].title)

\* insertion of e after every element whose key is not greater: a stable sort step
insert(s, e) ==
    LET after == {i \in 1..Len(s) : ~less(e.title, s[i].title)}
        k == IF after = {} THEN 0 ELSE CHOOSE i \in after : \A j \in after : j <= i
    IN  SubSeq(s, 1, k) \o <<e>> \o SubSeq(s, k + 1, Len(s))

\* the sort left out: the catalog stays in the order of enumeration
sortNotDone(s) == s

\* self.snippets.sort(key=lambda x: x['title'])
RECURSIVE sortByTitle(_)
sortByTitle(s) ==
    IF s = <<>> THEN <<>>
    ELSE insert(sortByTitle(SubSeq(s, 1, Len(s) - 1)), s[Len(s)])

\* load_snippets, the directory enumerated in the order enum: the catalog it leaves in
\* self.snippets, what it printed, whether it made the directory, what it raised
load_snippets(enum) ==
    IF ~dirExists
    THEN [snippets |-> snippets, diag |-> {}, created |-> TRUE, raised |-> "none"]
    ELSE LET r == scan(enum, 1, [loaded |-> <<>>, errors |-> {}]) IN
         IF sortRaises(r.loaded)
         THEN [snippets |-> r.loaded, diag |-> r.errors, created |-> FALSE,
               raised |-> "TypeError"]
         ELSE [snippets |-> sortByTitle(r.loaded), diag |-> r.errors, created |-> FALSE,
               raised |-> "none"]

\* show_menu without the test for an empty catalog
show_menu_always(cat) == TRUE

\* show_menu: False and the "no snippets" message when the catalog is empty
show_menu(cat) == cat # <<>>

(***************************************************************************)
(* SnippetRunner.run, top of the loop: load_snippets, show_menu, and the   *)
(* step into get_choice's prompt.                                          *)
(***************************************************************************)
Menu ==
    /\ pc = "AtMenu"
    /\ \E enum \in Orders(glob(files)) :
         LET r == load_snippets(enum) IN
         /\ snippets' = r.snippets
         /\ diag' = r.diag
         /\ dirExists' = TRUE
         /\ IF r.raised # "none"
            THEN /\ pc' = "Crashed"
                 /\ exc' = r.raised
                 /\ screen' = (IF r.diag # {} THEN {"load_error"} ELSE {})
            ELSE /\ exc' = exc
                 /\ pc' = IF show_menu(r.snippets) THEN "choice" ELSE "Terminated"
                 /\ screen' = (IF r.created THEN {"creating_dir"} ELSE {})
                              \cup (IF r.diag # {} THEN {"load_error"} ELSE {})
                              \cup (IF show_menu(r.snippets) THEN {"menu"}
                                    ELSE {"no_snippets", "restart_hint"})
    /\ selected' = <<>>
    /\ UNCHANGED <<files, event>>
    /\ UNCHANGED todoVars
    /\ UNCHANGED jsonVars

\* Ctrl-C while load_snippets or show_menu runs: no handler encloses them
MenuInterrupted ==
    /\ pc = "AtMenu"
    /\ pc' = "Crashed"
    /\ exc' = "KeyboardInterrupt"
    /\ event' = Signal("load", "interrupt")
    /\ screen' = {}
    /\ UNCHANGED <<dirExists, files, snippets, selected, diag>>
    /\ UNCHANGED todoVars
    /\ UNCHANGED jsonVars

(***************************************************************************)
(* What the operator may type at each prompt.                              *)
(***************************************************************************)
ChoiceLines ==
    {Line(<<N(k)>>, pad) : k \in (-1)..(MaxFiles + 1), pad \in BOOLEAN}
    \cup {Line(<<>>, FALSE), Line(<<W("x")>>, FALSE), Line(<<N(1), N(2)>>, FALSE)}

CommandLines ==
    {Line(ws, FALSE) : ws \in {<<>>, <<W("back")>>, <<W("b")>>, <<W("exit")>>, <<U("back")>>,
                               <<W("quit")>>, <<W("menu")>>, <<W("list")>>,
                               <<W("add"), W("A"), N(1)>>}}
    \cup {Line(ws, TRUE) : ws \in {<<>>, <<W("b")>>, <<U("exit")>>, <<W("list")>>}}

AnswerLines ==
    {Line(ws, FALSE) : ws \in {<<>>, <<W("b")>>, <<W("back")>>, <<W("m")>>, <<W("menu")>>,
                               <<W("q")>>, <<W("quit")>>, <<W("exit")>>, <<W("r")>>,
                               <<U("quit")>>, <<U("menu")>>, <<W("run"), W("again")>>}}
    \cup {Line(ws, TRUE) : ws \in {<<>>, <<W("q")>>, <<U("b")>>, <<W("r")>>}}

\* how input() may end instead of returning a line: Ctrl-C, or the input closed
Breaks == {"interrupt", "eof"}

(***************************************************************************)
(* SnippetRunner.get_choice, and on a selection the entry into run_snippet *)
(* (run, lines 142-148; run_snippet, lines 89-94) up to the first prompt.  *)
(***************************************************************************)
\* the number typed returned as it is, without the step from 1-based to 0-based
get_choice_onebased(l) ==
    LET choice == strip(l) IN
    IF ~intOk(choice) THEN <<"again", "format_error">>
    ELSE LET choice_num == int(choice) IN
         IF choice_num = 0 THEN <<"none">>
         ELSE IF 1 <= choice_num /\ choice_num <= Len(snippets)
              THEN <<"idx", choice_num>>
         ELSE <<"again", "range_error">>

\* the range test written with < len(self.snippets): the last entry cannot be chosen
get_choice_short(l) ==
    LET choice == strip(l) IN
    IF ~intOk(choice) THEN <<"again", "format_error">>
    ELSE LET choice_num == int(choice) IN
         IF choice_num = 0 THEN <<"none">>
         ELSE IF 1 <= choice_num /\ choice_num < Len(snippets)
              THEN <<"idx", choice_num - 1>>
         ELSE <<"again", "range_error">>

\* the value get_choice returns for the line: <<"none">> for None, <<"idx", k>> for an
\* index, <<"again", message>> when it prints a message and prompts again
get_choice(l) ==
    LET choice == strip(l) IN
    IF ~intOk(choice) THEN <<"again", "format_error">>
    ELSE LET choice_num == int(choice) IN
         IF choice_num = 0 THEN <<"none">>
         ELSE IF 1 <= choice_num /\ choice_num <= Len(snippets)
              THEN <<"idx", choice_num - 1>>
         ELSE <<"again", "range_error">>

Choose ==
    /\ pc = "choice"
    /\ \E l \in ChoiceLines :
         LET r == get_choice(l) IN
         /\ event' = Typed("choice", l)
         /\ CASE r[1] = "none" ->
                   /\ pc' = "Terminated"
                   /\ selected' = <<>>
                   /\ screen' = {"goodbye"}
              [] r[1] = "idx" ->
                   /\ pc' = "command"
                   /\ selected' = <<r[2]>>
                   /\ screen' = {"header"}
              [] OTHER ->
                   /\ pc' = "choice"
                   /\ selected' = <<>>
                   /\ screen' = {r[2]}
    /\ UNCHANGED <<dirExists, files, snippets, diag, exc>>
    /\ UNCHANGED todoVars
    /\ UNCHANGED jsonVars

\* input() of get_choice ends without a line: KeyboardInterrupt is handled (return None),
\* EOFError is not
ChooseBreak ==
    /\ pc = "choice"
    /\ \E b \in Breaks :
         /\ event' = Signal("choice", b)
         /\ IF b = "interrupt"
            THEN pc' = "Terminated" /\ exc' = exc /\ screen' = {"newline", "goodbye"}
            ELSE pc' = "Crashed" /\ exc' = "EOFError" /\ screen' = {}
    /\ selected' = <<>>
    /\ UNCHANGED <<dirExists, files, snippets, diag>>
    /\ UNCHANGED todoVars
    /\ UNCHANGED jsonVars

(***************************************************************************)
(* SnippetRunner.run_snippet, the loop                                     *)
(***************************************************************************)
\* the snippet run_snippet works on: self.snippets[snippet_idx]
snippet == snippets[selected[1] + 1]

\* the command line taken without .strip()
command_kind_unstripped(l) ==
    LET command == l IN
    IF lower(command) \in {Lit("back"), Lit("b"), Lit("exit")} THEN "back"
    ELSE IF command = NoLine THEN "again"
    ELSE "run"

\* what the command line leads to: "back" (break), "again" (continue), "run" (dispatch)
command_kind(l) ==
    LET command == strip(l) IN
    IF lower(command) \in {Lit("back"), Lit("b"), Lit("exit")} THEN "back"
    ELSE IF command = NoLine THEN "again"
    ELSE "run"

Command ==
    /\ pc = "command"
    /\ \E l \in CommandLines :
         LET k == command_kind(l) IN
         /\ event' = Typed("command", l)
         /\ pc' = CASE k = "back" -> "AtMenu" [] k = "again" -> "command" [] OTHER -> "dispatch"
         /\ selected' = IF k = "back" THEN <<>> ELSE selected
    /\ screen' = {}
    /\ UNCHANGED <<dirExists, files, snippets, diag, exc>>
    /\ UNCHANGED todoVars
    /\ UNCHANGED jsonVars

\* args = command.split(): the argument list the pending call of the entry point gets
dispatch_args == split(strip(event.line))

\* the call's except clause left out: nothing is caught at the call
caughtNothingAtCall(e) == FALSE

\* the loop's except clause left out
caughtNothingByLoop(e) == FALSE

\* the except clauses of run_snippet: the one around the call (line 112) and the one
\* around the loop body (line 125)
caughtAtCall(e) == e = "Exception"
caughtByLoop(e) == e = "KeyboardInterrupt"

\* where an exception raised inside the loop body leaves the host
Raised(e) ==
    IF caughtByLoop(e)
    THEN pc' = "AtMenu" /\ selected' = <<>> /\ exc' = exc /\ screen' = {"newline"}
    ELSE pc' = "Crashed" /\ selected' = selected /\ exc' = e /\ screen' = {}

\* input() of the command prompt ends without a line
CommandBreak ==
    /\ pc = "command"
    /\ \E b \in Breaks :
         /\ event' = Signal("command", b)
         /\ Raised(IF b = "interrupt" THEN "KeyboardInterrupt" ELSE "EOFError")
    /\ UNCHANGED <<dirExists, files, snippets, diag>>
    /\ UNCHANGED todoVars
    /\ UNCHANGED jsonVars

\* how a call of the entry point may end: a module whose run is not callable raises
\* TypeError (an Exception); any other may return, raise an Exception, be interrupted
\* (KeyboardInterrupt), or raise SystemExit
Outcomes(m) ==
    IF File(m).callable THEN {"return", "Exception", "KeyboardInterrupt", "SystemExit"}
    ELSE {"Exception"}

\* snippet['module'].run(args) with its try/except, up to the "What next?" prompt
Dispatch ==
    /\ pc = "dispatch"
    /\ \E o \in Outcomes(snippet.module) :
         /\ event' = Signal("dispatch", o)
         /\ IF o = "return"
            THEN pc' = "postrun" /\ selected' = selected /\ exc' = exc
                 /\ screen' = {"separator"}
            ELSE IF caughtAtCall(o)
            THEN pc' = "postrun" /\ selected' = selected /\ exc' = exc
                 /\ screen' = {"snippet_error", "separator"}
            ELSE Raised(o)
    /\ UNCHANGED <<dirExists, files, snippets, diag>>
    /\ UNCHANGED todoVars
    /\ UNCHANGED jsonVars

\* the answer compared without .lower()
next_kind_cased(l) ==
    LET next_action == strip(l) IN
    IF next_action \in {Lit("b"), Lit("back"), Lit("m"), Lit("menu")} THEN "back"
    ELSE IF next_action \in {Lit("q"), Lit("quit"), Lit("exit")} THEN "quit"
    ELSE "again"

\* what the answer to "What next?" leads to
next_kind(l) ==
    LET next_action == lower(strip(l)) IN
    IF next_action \in {Lit("b"), Lit("back"), Lit("m"), Lit("menu")} THEN "back"
    ELSE IF next_action \in {Lit("q"), Lit("quit"), Lit("exit")} THEN "quit"
    ELSE "again"

PostRun ==
    /\ pc = "postrun"
    /\ \E l \in AnswerLines :
         LET k == next_kind(l) IN
         /\ event' = Typed("postrun", l)
         /\ pc' = CASE k = "back" -> "AtMenu" [] k = "quit" -> "Terminated" [] OTHER -> "command"
         /\ selected' = IF k = "again" THEN selected ELSE <<>>
         /\ screen' = IF k = "quit" THEN {"goodbye"} ELSE {}
    /\ UNCHANGED <<dirExists, files, snippets, diag, exc>>
    /\ UNCHANGED todoVars
    /\ UNCHANGED jsonVars

\* input() of the "What next?" prompt ends without a line
PostRunBreak ==
    /\ pc = "postrun"
    /\ \E b \in Breaks :
         /\ event' = Signal("postrun", b)
         /\ Raised(IF b = "interrupt" THEN "KeyboardInterrupt" ELSE "EOFError")
    /\ UNCHANGED <<dirExists, files, snippets, diag>>
    /\ UNCHANGED todoVars
    /\ UNCHANGED jsonVars

(***************************************************************************)
(* The file system under the running host.                                 *)
(***************************************************************************)
Running == pc \in {"AtMenu", "choice", "command", "dispatch", "postrun"}

AddFile ==
    /\ Running /\ dirExists
    /\ Cardinality(files) < MaxFiles
    /\ \E n \in FileNames \ files : files' = files \cup {n}
    /\ UNCHANGED <<pc, dirExists, snippets, selected, event, screen, diag, exc>>
    /\ UNCHANGED todoVars
    /\ UNCHANGED jsonVars

RemoveFile ==
    /\ Running
    /\ \E n \in files : files' = files \ {n}
    /\ UNCHANGED <<pc, dirExists, snippets, selected, event, screen, diag, exc>>
    /\ UNCHANGED todoVars
    /\ UNCHANGED jsonVars

RemoveDir ==
    /\ Running /\ dirExists
    /\ dirExists' = FALSE
    /\ files' = {}
    /\ UNCHANGED <<pc, snippets, selected, event, screen, diag, exc>>
    /\ UNCHANGED todoVars
    /\ UNCHANGED jsonVars

(***************************************************************************)
(* snippets/todo.py: run(args).  A record is a dictionary with title,      *)
(* status, priority and date; a title is the tokens joined by blanks.      *)
(***************************************************************************)
\* a token str.isdigit() accepts though int() rejects it (a superscript digit)
D(s) == [k |-> "d", s |-> s, v |-> 0, up |-> FALSE]

\* str.isdigit(): a numeral without sign, or digit characters that are no decimal numeral
isdigit(t) == (t.k = "n" /\ t.v >= 0) \/ t.k = "d"

\* int(token): a value for a numeral, ValueError for anything else
intTokOk(t) == t.k = "n"

\* the lookup written with a default, status_map.get(token.lower(), 'todo')
status_map_default(t) ==
    LET w == lowerTok(t) IN
    IF w.k # "w" THEN <<"todo">>
    ELSE CASE w.s = "todo" -> <<"todo">>
           [] w.s \in {"progress", "in-progress", "inprogress"} -> <<"in progress">>
           [] w.s \in {"done", "completed", "complete"} -> <<"completed">>
           [] OTHER -> <<"todo">>

\* status_map.get(token.lower()): <<>> for None
status_map(t) ==
    LET w == lowerTok(t) IN
    IF w.k # "w" THEN <<>>
    ELSE CASE w.s = "todo" -> <<"todo">>
           [] w.s \in {"progress", "in-progress", "inprogress"} -> <<"in progress">>
           [] w.s \in {"done", "completed", "complete"} -> <<"completed">>
           [] OTHER -> <<>>

priorities(ts) == {ts[i].priority : i \in 1..Len(ts)}

\* get_next_priority: the lowest number from 1 on that no record uses
RECURSIVE firstFree(_, _)
firstFree(used, priority) ==
    IF priority \in used THEN firstFree(used, priority + 1) ELSE priority

\* one past the number of records instead of the lowest unused number
next_after_count(ts) == Len(ts) + 1

get_next_priority(ts) ==
    IF ts = <<>> THEN 1 ELSE firstFree(priorities(ts), 1)

\* the loop with > for >=: the record at the new priority stays
shiftAbove(ts, priority) ==
    [i \in 1..Len(ts) |->
        IF ts[i].priority > priority THEN [ts[i] EXCEPT !.priority = @ + 1] ELSE ts[i]]

\* the loop with <= for >=: the records at or below the new priority move
shiftBelow(ts, priority) ==
    [i \in 1..Len(ts) |->
        IF ts[i].priority <= priority THEN [ts[i] EXCEPT !.priority = @ + 1] ELSE ts[i]]

\* the loop of lines 130-132: every record at or above the new priority moves up one
shift(ts, priority) ==
    [i \in 1..Len(ts) |->
        IF ts[i].priority >= priority THEN [ts[i] EXCEPT !.priority = @ + 1] ELSE ts[i]]

\* the sort after an add left out: the new record stays at the end
appendedUnsorted(s) == s

\* todos.sort(key=lambda x: x['priority']): stable, by insertion
insertByPriority(s, e) ==
    LET after == {i \in 1..Len(s) : s[i].priority <= e.priority}
        k == IF after = {} THEN 0 ELSE CHOOSE i \in after : \A j \in after : j <= i
    IN  SubSeq(s, 1, k) \o <<e>> \o SubSeq(s, k + 1, Len(s))

RECURSIVE sortByPriority(_)
sortByPriority(s) ==
    IF s = <<>> THEN <<>>
    ELSE insertByPriority(sortByPriority(SubSeq(s, 1, Len(s) - 1)), s[Len(s)])

\* the record the add branch builds; the date is the clock's reading
new_todo(title, priority) ==
    [title |-> title, status |-> "todo", priority |-> priority, date |-> "now"]

\* what a call leaves: the persisted store, the messages printed, the rows listed
Result(ts, msgs, rows) == [todos |-> ts, out |-> msgs, listed |-> rows]

\* an add with three or more arguments whose last one is all digits names a priority
explicit(a) == Len(a) >= 3 /\ isdigit(a[Len(a)])

\* the add branch
add(ts, a) ==
    IF Len(a) < 2 THEN Result(ts, {"missing_title", "usage"}, <<>>)
    ELSE IF explicit(a) /\ ~intTokOk(a[Len(a)])
         THEN Result(ts, {"error"}, <<>>)      \* int() raises, caught at line 219
    ELSE LET priority == IF explicit(a) THEN a[Len(a)].v ELSE get_next_priority(ts)
             title == IF explicit(a) THEN SubSeq(a, 2, Len(a) - 1) ELSE SubSeq(a, 2, Len(a))
             moved == IF explicit(a) THEN shift(ts, priority) ELSE ts
             saved == sortByPriority(Append(moved, new_todo(title, priority)))
         IN  Result(saved,
                    {"added"} \cup (IF \E i \in 1..Len(saved) : saved[i].priority > priority
                                    THEN {"shifted"} ELSE {}),
                    <<>>)

\* the first record with the priority gets the status (lines 178-183)
set_status(ts, priority, new_status) ==
    LET hits == {i \in 1..Len(ts) : ts[i].priority = priority}
        first == CHOOSE i \in hits : \A j \in hits : i <= j
    IN  [ts EXCEPT ![first].status = new_status]

\* the status branch
status(ts, a) ==
    IF Len(a) # 3 THEN Result(ts, {"expected_priority_status", "usage"}, <<>>)
    ELSE IF ~intTokOk(a[2]) THEN Result(ts, {"invalid_priority"}, <<>>)
    ELSE IF status_map(a[3]) = <<>> THEN Result(ts, {"invalid_status"}, <<>>)
    ELSE IF a[2].v \notin priorities(ts) THEN Result(ts, {"not_found"}, <<>>)
    ELSE Result(set_status(ts, a[2].v, status_map(a[3])[1]), {"updated"}, <<>>)

\* [todo for todo in todos if todo['priority'] != priority]
RECURSIVE without(_, _)
without(ts, priority) ==
    IF ts = <<>> THEN <<>>
    ELSE IF ts[1].priority # priority THEN <<ts[1]>> \o without(Tail(ts), priority)
    ELSE without(Tail(ts), priority)

\* the remove branch
remove(ts, a) ==
    IF Len(a) # 2 THEN Result(ts, {"expected_priority", "usage"}, <<>>)
    ELSE IF ~intTokOk(a[2]) THEN Result(ts, {"invalid_priority"}, <<>>)
    ELSE IF Len(without(ts, a[2].v)) = Len(ts) THEN Result(ts, {"not_found"}, <<>>)
    ELSE Result(without(ts, a[2].v), {"removed"}, <<>>)

\* run(args) on the persisted store ts
run(ts, a) ==
    IF Len(a) = 0 THEN Result(ts, {"no_command", "usage"}, <<>>)
    ELSE LET command == lowerTok(a[1]) IN
         CASE command = W("list") ->
                Result(ts, IF ts = <<>> THEN {"no_todos"} ELSE {"table"}, ts)
           [] command = W("add") -> add(ts, a)
           [] command = W("status") -> status(ts, a)
           [] command = W("remove") -> remove(ts, a)
           [] OTHER -> Result(ts, {"unknown_command"}, <<>>)

\* the argument lists tried
TitleTokens == {W("A"), N(2)}
PriorityTokens == {N(p) : p \in (-1)..MaxPri} \cup {W("x")}
StatusTokens == {W("todo"), W("progress"), U("done"), W("bogus")}

TodoArgs ==
    {<<>>, <<W("list")>>, <<U("list")>>, <<W("add")>>, <<W("status")>>, <<W("remove")>>,
     <<W("help")>>, <<W("add"), W("A"), D("2")>>}
    \cup {<<W("add"), t>> : t \in TitleTokens}
    \cup {<<W("add"), t, N(p)>> : t \in TitleTokens, p \in 0..MaxPri}
    \cup {<<W("status"), p, s>> : p \in PriorityTokens, s \in StatusTokens}
    \cup {<<W("remove"), p>> : p \in PriorityTokens}

\* the stores the model follows: at most MaxTodos records, priorities up to MaxPri
Bounded(ts) == Len(ts) <= MaxTodos /\ \A i \in 1..Len(ts) : ts[i].priority <= MaxPri

\* one call of the entry point
TodoRun ==
    \E a \in TodoArgs :
       LET r == run(todos, a) IN
       /\ Bounded(r.todos)
       /\ todos' = r.todos
       /\ args' = a
       /\ out' = r.out
       /\ listed' = r.listed
       /\ UNCHANGED hostVars
       /\ UNCHANGED jsonVars

(***************************************************************************)
(* snippets/json_formatter.py: run(args).  A text is blank, a JSON         *)
(* document, or neither.  A document has the value it denotes, a layout    *)
(* and a way of writing the characters outside ASCII (escaped or not).     *)
(* pyperclip is taken to be installed.                                     *)
(***************************************************************************)
Blank == [syntax |-> "blank", value |-> 0, layout |-> "none", escaped |-> FALSE]
Malformed == [syntax |-> "malformed", value |-> 0, layout |-> "none", escaped |-> FALSE]
Document(v, layout, escaped) ==
    [syntax |-> "json", value |-> v, layout |-> layout, escaped |-> escaped]

\* value 1 is {"a": 1}; value 2 holds a character outside ASCII
Texts ==
    {Blank, Malformed,
     Document(1, "compact", FALSE), Document(1, "indent2", FALSE),
     Document(2, "compact", TRUE), Document(2, "indent2", FALSE)}

\* json.loads / json.load: the value of a document, JSONDecodeError on any other text
decodes(t) == t.syntax = "json"
loads(t) == t.value

\* json.dumps(data, indent=2, ensure_ascii=False)
dumps(v) == Document(v, "indent2", FALSE)

\* open(input_source, 'r'): the files of the working directory
open(t) ==
    IF t.k # "w" THEN [raised |-> "FileNotFoundError", text |-> Blank]
    ELSE CASE t.s = "data.json"    -> [raised |-> "none", text |-> Document(1, "compact", FALSE)]
           [] t.s = "cafe.json"    -> [raised |-> "none", text |-> Document(2, "compact", TRUE)]
           [] t.s = "bad.json"     -> [raised |-> "none", text |-> Malformed]
           [] t.s = "empty.json"   -> [raised |-> "none", text |-> Blank]
           [] t.s = "logs"         -> [raised |-> "IsADirectoryError", text |-> Blank]
           [] OTHER                -> [raised |-> "FileNotFoundError", text |-> Blank]

\* input_source.lower() in ['clipboard', 'clip', 'cb']
sentinel(t) == lowerTok(t) \in {W("clipboard"), W("clip"), W("cb")}

\* how run gets on up to its prompt: returned after printing msgs, or waiting at the
\* prompt with the formatted text printed
Returned(msgs) == [at |-> "idle", out |-> msgs, formatted |-> <<>>]
Prompting(msgs, text) == [at |-> "prompt", out |-> msgs \cup {"formatted"}, formatted |-> <<text>>]

\* run(args) up to the prompt (lines 29-66), with the handlers of lines 74-79
json_run(a) ==
    IF Len(a) # 1 THEN Returned({"expected_1_argument", "usage"})
    ELSE LET input_source == a[1] IN
         IF sentinel(input_source)
         THEN IF ~clipboardOk THEN Returned({"reading_clipboard", "error"})
              ELSE LET json_string == clipboard IN
                   IF json_string.syntax = "blank"
                   THEN Returned({"reading_clipboard", "clipboard_empty"})
                   ELSE IF ~decodes(json_string)
                   THEN Returned({"reading_clipboard", "invalid_json"})
                   ELSE Prompting({"reading_clipboard"}, dumps(loads(json_string)))
         ELSE LET f == open(input_source) IN
              IF f.raised = "FileNotFoundError" THEN Returned({"reading_file", "not_found"})
              ELSE IF f.raised # "none" THEN Returned({"reading_file", "error"})
              ELSE IF ~decodes(f.text) THEN Returned({"reading_file", "invalid_json"})
              ELSE Prompting({"reading_file"}, dumps(loads(f.text)))

\* anything but a refusal taken as consent
copy_wanted_unless_no(l) == lower(strip(l)) \notin {Lit("n"), Lit("no")}

\* response in ['y', 'yes'], the response trimmed and lower-cased
copy_wanted(l) == lower(strip(l)) \in {Lit("y"), Lit("yes")}

JsonArgs ==
    {<<>>, <<W("data.json"), W("clipboard")>>}
    \cup {<<t>> : t \in {W("clipboard"), U("clipboard"), W("clip"), W("cb"),
                        W("data.json"), W("cafe.json"), W("bad.json"), W("empty.json"),
                        W("logs"), W("missing.json"), N(1)}}

CopyLines ==
    {Line(ws, FALSE) : ws \in {<<>>, <<W("y")>>, <<W("yes")>>, <<U("y")>>, <<W("n")>>,
                               <<W("no")>>, <<W("yeah")>>, <<W("yes"), W("please")>>}}
    \cup {Line(ws, TRUE) : ws \in {<<>>, <<W("y")>>, <<U("yes")>>}}

\* a call of the entry point, up to its return or to its prompt
JsonCall ==
    /\ jpc = "idle"
    /\ \E a \in JsonArgs :
         LET r == json_run(a) IN
         /\ jargs' = a
         /\ jpc' = r.at
         /\ jout' = r.out
         /\ formatted' = r.formatted
    /\ jexc' = "none"
    /\ UNCHANGED <<clipboard, clipboardOk, response>>
    /\ UNCHANGED hostVars
    /\ UNCHANGED todoVars

\* the prompt returns a line: pyperclip.copy(formatted) on y or yes; what copy raises
\* without a clipboard mechanism is caught at line 78
JsonAnswer ==
    /\ jpc = "prompt"
    /\ \E l \in CopyLines :
         /\ response' = Typed("copy", l)
         /\ IF copy_wanted(l)
            THEN IF clipboardOk
                 THEN clipboard' = formatted[1] /\ jout' = {"copied"}
                 ELSE clipboard' = clipboard /\ jout' = {"error"}
            ELSE clipboard' = clipboard /\ jout' = {"not_copied"}
    /\ jpc' = "idle"
    /\ formatted' = <<>>
    /\ jexc' = "none"
    /\ UNCHANGED <<jargs, clipboardOk>>
    /\ UNCHANGED hostVars
    /\ UNCHANGED todoVars

\* the prompt ends without a line: EOFError is an Exception and is caught at line 78,
\* KeyboardInterrupt leaves run
JsonAnswerBreak ==
    /\ jpc = "prompt"
    /\ \E b \in Breaks :
         /\ response' = Signal("copy", b)
         /\ IF b = "eof"
            THEN jout' = {"error"} /\ jexc' = "none"
            ELSE jout' = {} /\ jexc' = "KeyboardInterrupt"
    /\ jpc' = "idle"
    /\ formatted' = <<>>
    /\ UNCHANGED <<jargs, clipboard, clipboardOk>>
    /\ UNCHANGED hostVars
    /\ UNCHANGED todoVars

\* before the first call: any text on the clipboard, with or without a mechanism
JsonInit ==
    /\ jpc = "idle"
    /\ jargs = <<>>
    /\ clipboard \in Texts
    /\ clipboardOk \in BOOLEAN
    /\ formatted = <<>>
    /\ response = NoEvent
    /\ jout = {}
    /\ jexc = "none"

\* the formatter not in use: an empty clipboard
JsonIdle ==
    /\ jpc = "idle"
    /\ jargs = <<>>
    /\ clipboard = Blank
    /\ clipboardOk = TRUE
    /\ formatted = <<>>
    /\ response = NoEvent
    /\ jout = {}
    /\ jexc = "none"

(***************************************************************************)
(* The todo store at the start: no data/todos.json, load_todos gives [].   *)
(***************************************************************************)
TodoInit ==
    /\ todos = <<>>
    /\ args = <<>>
    /\ out = {}
    /\ listed = <<>>

\* SnippetRunner() followed by run(): an empty catalog, the welcome line printed
HostInit ==
    /\ pc = "AtMenu"
    /\ dirExists \in BOOLEAN
    /\ files \in {S \in SUBSET FileNames : Cardinality(S) <= MaxFiles /\ (~dirExists => S = {})}
    /\ snippets = <<>>
    /\ selected = <<>>
    /\ event = NoEvent
    /\ screen = {"welcome"}
    /\ diag = {}
    /\ exc = "none"

Init == HostInit /\ TodoInit /\ JsonIdle

\* the host as the todo snippet sees it: its own directory, holding the snippet's file
HostIdle ==
    /\ pc = "AtMenu"
    /\ dirExists = TRUE
    /\ files = {}
    /\ snippets = <<>>
    /\ selected = <<>>
    /\ event = NoEvent
    /\ screen = {"welcome"}
    /\ diag = {}
    /\ exc = "none"

TodoOnly == HostIdle /\ TodoInit /\ JsonIdle

JsonOnly == HostIdle /\ TodoInit /\ JsonInit

Next ==
    \/ Menu
    \/ MenuInterrupted
    \/ Choose
    \/ ChooseBreak
    \/ Command
    \/ CommandBreak
    \/ Dispatch
    \/ PostRun
    \/ PostRunBreak
    \/ AddFile
    \/ RemoveFile
    \/ RemoveDir

Spec == Init /\ [][Next]_vars

TodoNext == TodoRun

TodoSpec == TodoOnly /\ [][TodoNext]_vars

JsonNext ==
    \/ JsonCall
    \/ JsonAnswer
    \/ JsonAnswerBreak

JsonSpec == JsonOnly /\ [][JsonNext]_vars

(***************************************************************************)
(* Properties of the host (checked under Spec).                            *)
(***************************************************************************)
\* the line, trimmed and lower-cased, is one of the words of S
Says(l, S) == Len(l.words) = 1 /\ l.words[1].k = "w" /\ l.words[1].s \in S

\* the line, trimmed, is the numeral of an integer
IsInteger(l) == Len(l.words) = 1 /\ l.words[1].k = "n"

\* the step consumes something at the given place
Consumes(at) == event'.at = at /\ (pc' # pc \/ event' # event \/ screen' # screen)

BackWords == {"back", "b", "menu", "m"}
QuitWords == {"quit", "q", "exit"}

\* what the post-run prompt does with the answer the step reads
PostRunAnswered ==
    (pc = "postrun" /\ Consumes("postrun") /\ event'.kind = "line") =>
        /\ Says(event'.line, BackWords) => (pc' = "AtMenu" /\ selected' = <<>>)
        /\ Says(event'.line, QuitWords) => (pc' = "Terminated" /\ "menu" \notin screen')
        /\ ~Says(event'.line, BackWords \cup QuitWords) =>
              (pc' = "command" /\ selected' = selected /\ snippets' = snippets
               /\ "header" \notin screen')
        /\ exc' = "none"

\* C1: an error raised by the entry point during a dispatch never ends the host: it is
\* caught at the call, a message is printed and the host is at the post-run prompt with
\* the same snippet selected; from there back, quit and any other answer act as after a
\* dispatch that returned.
ErrorStaysInRunning ==
    [][/\ (pc = "dispatch" /\ Consumes("dispatch") /\ event'.kind = "Exception") =>
             (pc' = "postrun" /\ exc' = "none" /\ "snippet_error" \in screen'
              /\ selected' = selected /\ snippets' = snippets)
       /\ (event = Signal("dispatch", "Exception") => PostRunAnswered)
       /\ (event = Signal("dispatch", "Exception") => pc = "postrun")
      ]_vars

ErrorStaysInRunning_witness ==
    /\ pc = "postrun"
    /\ event = Signal("dispatch", "Exception")
    /\ "snippet_error" \in screen
    /\ exc = "none"

\* the step is a whole load_snippets and show_menu
Loads == pc = "AtMenu" /\ pc' # "AtMenu" /\ event' = event

\* the candidates of the directory, those among them whose load raises, and those that
\* load and expose TITLE, DESCRIPTION and run
Candidates(S) == {n \in S : File(n).py /\ ~File(n).underscore}
Failing(S) == {n \in Candidates(S) : File(n).load = "error"}
WellFormed(S) ==
    {n \in Candidates(S) :
        /\ File(n).load = "ok"
        /\ File(n).hasTitle /\ File(n).hasDescription /\ File(n).hasRun}

Modules(cat) == {cat[i].module : i \in 1..Len(cat)}

\* C3: whatever the directory holds and in whatever order it is enumerated, a load leaves
\* in the catalog exactly the candidates that load without error and expose TITLE,
\* DESCRIPTION and run, prints a diagnostic for exactly the candidates that raise, and
\* does not end the host.
LoadKeepsTheWellFormed ==
    [][(Loads /\ dirExists) =>
          /\ Modules(snippets') = WellFormed(files)
          /\ Len(snippets') = Cardinality(WellFormed(files))
          /\ diag' = Failing(files)
          /\ pc' # "Crashed" /\ exc' = "none"
      ]_vars

\* C4: a load that finds no snippets directory creates it and leaves an empty catalog,
\* at the first menu entry and at every later one.
MissingDirGivesEmptyCatalog ==
    [][(Loads /\ ~dirExists) => (dirExists' /\ snippets' = <<>>)]_vars

\* C5: the trimmed, lower-cased answer at the post-run prompt decides: back, b, menu, m
\* lead to AtMenu; quit, q, exit lead to Terminated with no menu shown; anything else,
\* the empty answer too, leads back to the command prompt of the same snippet with no
\* title and description printed.
PostRunAnswerDecides == [][PostRunAnswered]_vars

PostRunAnswerDecides_witness ==
    /\ pc = "command"
    /\ event.at = "postrun" /\ event.kind = "line"
    /\ event.line.words = <<>>
    /\ selected # <<>>
    /\ "header" \notin screen

\* C6: at the selection prompt over a catalog of N >= 1 entries, 0 or an interrupt ends
\* the session and nothing is read after it; a line that is no integer, or an integer
\* outside 0..N, leaves the host at the selection prompt with nothing selected; an
\* integer k of 1..N leads to the command prompt of the k-th entry.
MenuSelection ==
    [][/\ (pc = "choice" /\ Consumes("choice") /\ event'.kind \in {"line", "interrupt"}) =>
            LET l == event'.line
                n == Len(snippets)
            IN  /\ n >= 1
                /\ (event'.kind = "interrupt" \/ (IsInteger(l) /\ l.words[1].v = 0)) =>
                       (pc' = "Terminated" /\ selected' = <<>>)
                /\ (event'.kind = "line" /\ ~IsInteger(l)) =>
                       (pc' = "choice" /\ selected' = <<>>)
                /\ (IsInteger(l) /\ (l.words[1].v < 0 \/ l.words[1].v > n)) =>
                       (pc' = "choice" /\ selected' = <<>>)
                /\ (IsInteger(l) /\ l.words[1].v \in 1..n) =>
                       /\ pc' = "command"
                       /\ selected' = <<l.words[1].v - 1>>
                       /\ snippets' = snippets
                       /\ snippets'[selected'[1] + 1] = snippets[l.words[1].v]
       /\ pc # "Terminated"
      ]_vars

MenuSelection_witness ==
    /\ pc = "command"
    /\ event.at = "choice"
    /\ Len(snippets) = 2
    /\ selected = <<1>>
    /\ event.line.words = <<N(2)>>

\* C10 as stated: an interrupt is caught only at the menu selection and at the command
\* prompt; one that reaches the host while the entry point runs is not caught by the
\* dispatch loop and leads neither to AtMenu nor to the post-run prompt.
InterruptCaughtOnlyAtReads ==
    [][(event'.kind \in {"interrupt", "KeyboardInterrupt"} /\ event' # event) =>
          /\ (exc' = "none") <=> (event'.at \in {"choice", "command"})
          /\ event'.at = "dispatch" => pc' \notin {"AtMenu", "postrun"}
      ]_vars

\* C10 amended: an interrupt is caught at the menu selection (the session ends) and
\* anywhere in the body of the dispatch loop: at the command prompt, while the entry
\* point runs and at the post-run prompt, and each of these leads to AtMenu, never to
\* the post-run prompt; an interrupt during the catalog load is not caught.
InterruptCaughtInLoopBody ==
    [][(event'.kind \in {"interrupt", "KeyboardInterrupt"} /\ event' # event) =>
          /\ event'.at = "choice" => (pc' = "Terminated" /\ exc' = "none")
          /\ event'.at \in {"command", "dispatch", "postrun"} =>
                (pc' = "AtMenu" /\ selected' = <<>> /\ exc' = "none")
          /\ event'.at = "load" => (pc' = "Crashed" /\ exc' = "KeyboardInterrupt")
      ]_vars

InterruptCaughtInLoopBody_witness ==
    /\ pc = "AtMenu"
    /\ event = Signal("dispatch", "KeyboardInterrupt")
    /\ exc = "none"

(***************************************************************************)
(* Properties of the todo snippet (checked under TodoSpec).                *)
(***************************************************************************)
\* the call's first argument is the command word, in any case
Cmd(a, w) == Len(a) >= 1 /\ a[1].k = "w" /\ a[1].s = w

\* the token is a run of decimal digits
Digits(t) == t.k = "n" /\ t.v >= 0

\* the token is one the status mapping knows, in any case
KnownStatus(t) ==
    t.k = "w" /\ t.s \in {"todo", "progress", "in-progress", "inprogress",
                           "done", "completed", "complete"}

Has(ts, p) == \E i \in 1..Len(ts) : ts[i].priority = p

DropAt(s, k) == SubSeq(s, 1, k - 1) \o SubSeq(s, k + 1, Len(s))

\* C2: from an empty store, after any adds, status changes and removes, no two persisted
\* records have the same priority.
PrioritiesUnique ==
    \A i, j \in 1..Len(todos) : i # j => todos[i].priority # todos[j].priority

PrioritiesUnique_witness ==
    /\ args = <<W("add"), W("A"), N(1)>>
    /\ Len(todos) = 2
    /\ todos[1].priority = 1 /\ todos[1].title = <<W("A")>>
    /\ todos[2].priority = 2 /\ todos[2].title = <<N(2)>>

\* the call being an add of at least n arguments whose last one is the digits of p: the
\* new record is stored with priority p, title and status as given, every record that had
\* priority >= p has it raised by one, and every other field of every record is kept
AddStoresAtLastToken(n) ==
    (Cmd(args', "add") /\ Len(args') >= n /\ Digits(args'[Len(args')])) =>
        LET p == args'[Len(args')].v IN
        /\ "added" \in out'
        /\ Len(todos') = Len(todos) + 1
        /\ \E k \in 1..Len(todos') :
              /\ todos'[k].priority = p
              /\ todos'[k].status = "todo"
              /\ \A i \in 1..Len(todos) :
                    LET old == todos[i]
                        new == DropAt(todos', k)[i]
                    IN  /\ new.title = old.title
                        /\ new.status = old.status
                        /\ new.date = old.date
                        /\ new.priority = IF old.priority >= p THEN old.priority + 1
                                          ELSE old.priority

\* C7 as stated: every add whose final token is a run of digits denoting p stores the new
\* record at priority p and moves the records at or above p up by one.
EveryDigitsAddStoresAtPriority == [][AddStoresAtLastToken(2)]_vars

\* C7 amended: every add of a title followed by a final token that is a run of digits
\* denoting p (three arguments or more) stores the new record at priority p, raises by
\* one the priority of every record that had priority >= p, and keeps every record
\* below p, and the title and status of every record, as they were.
TitledDigitsAddStoresAtPriority == [][AddStoresAtLastToken(3)]_vars

TitledDigitsAddStoresAtPriority_witness ==
    /\ args = <<W("add"), W("A"), N(1)>>
    /\ "shifted" \in out
    /\ Len(todos) = 3
    /\ todos[1].priority = 0
    /\ todos[2].priority = 1 /\ todos[2].title = <<W("A")>>
    /\ todos[3].priority = 2 /\ todos[3].status = "completed"

\* C8: an add without an explicit priority gives the new record the smallest positive
\* integer no record uses, and changes no existing record, whatever gaps the store has.
AutoPriorityIsLowestFree ==
    [][(Cmd(args', "add") /\ Len(args') = 2) =>
          /\ "added" \in out'
          /\ \E k \in 1..Len(todos') :
                /\ todos'[k].priority >= 1
                /\ ~Has(todos, todos'[k].priority)
                /\ \A q \in 1..(todos'[k].priority - 1) : Has(todos, q)
                /\ todos'[k].status = "todo"
                /\ DropAt(todos', k) = todos
      ]_vars

AutoPriorityIsLowestFree_witness ==
    /\ args = <<W("add"), W("A")>>
    /\ out = {"added", "shifted"}
    /\ Len(todos) = 2
    /\ todos[1].priority = 1 /\ todos[1].title = <<W("A")>>
    /\ todos[2].priority = 2

\* C9: a status or remove whose priority matches no record, and a status with an unknown
\* status token, prints its failure message and leaves the persisted store as it was;
\* a remove repeated right after it succeeded prints not-found and changes nothing.
FailedCommandsChangeNothing ==
    [][/\ (/\ Cmd(args', "status") /\ Len(args') = 3 /\ args'[2].k = "n"
           /\ KnownStatus(args'[3]) /\ ~Has(todos, args'[2].v)) =>
              (todos' = todos /\ out' = {"not_found"})
       /\ (/\ Cmd(args', "status") /\ Len(args') = 3 /\ args'[2].k = "n"
           /\ ~KnownStatus(args'[3])) =>
              (todos' = todos /\ out' = {"invalid_status"})
       /\ (/\ Cmd(args', "remove") /\ Len(args') = 2 /\ args'[2].k = "n"
           /\ ~Has(todos, args'[2].v)) =>
              (todos' = todos /\ out' = {"not_found"})
       /\ (Cmd(args, "remove") /\ "removed" \in out /\ args' = args) =>
              (todos' = todos /\ out' = {"not_found"})
      ]_vars

FailedCommandsChangeNothing_witness ==
    /\ args = <<W("remove"), N(2)>>
    /\ out = {"not_found"}
    /\ Len(todos) = 2
    /\ todos[1].priority = 0 /\ todos[2].priority = 1

(***************************************************************************)
(* Further properties of the host (checked under Spec).                    *)
(***************************************************************************)
\* C11: at the command prompt a line that, trimmed, is back, b or exit in any case, or an
\* interrupt, ends the sub-loop and leads to AtMenu with no call of the entry point; an
\* empty or blank line prompts again with no call; the entry point is called only from
\* the command prompt, with the non-empty whitespace split of the line.
CommandPromptDecides ==
    [][/\ (pc = "command" /\ Consumes("command")) =>
             /\ (event'.kind = "interrupt" \/ Says(event'.line, {"back", "b", "exit"})) =>
                    (pc' = "AtMenu" /\ selected' = <<>>)
             /\ (event'.kind = "line" /\ event'.line.words = <<>>) =>
                    (pc' = "command" /\ selected' = selected)
       /\ (pc' = "dispatch" /\ pc # "dispatch") =>
             /\ pc = "command"
             /\ event'.at = "command" /\ event'.kind = "line"
             /\ dispatch_args' # <<>>
             /\ dispatch_args' = event'.line.words
             /\ ~Says(event'.line, {"back", "b", "exit"})
             /\ selected' = selected
      ]_vars

CommandPromptDecides_witness ==
    /\ pc = "dispatch"
    /\ event.at = "command"
    /\ dispatch_args = <<W("add"), W("A"), N(1)>>

\* a catalog in ascending order of title
Ascending(cat) ==
    \A i, j \in 1..Len(cat) :
        i < j => (comparable(cat[i].title, cat[j].title) /\ ~less(cat[j].title, cat[i].title))

\* C12: whatever files are loaded and in whatever order the directory is enumerated, a load
\* that returns leaves the catalog in ascending order of title, and two loaded files
\* with the same title are both in it.
CatalogAscendingByTitle ==
    [][(Loads /\ exc' = "none") =>
          /\ Ascending(snippets')
          /\ dirExists =>
                \A a, b \in WellFormed(files) :
                    (a # b /\ File(a).title = File(b).title) =>
                        /\ {a, b} \subseteq Modules(snippets')
                        /\ Len(snippets') >= 2
      ]_vars

CatalogAscendingByTitle_witness ==
    /\ pc = "choice"
    /\ Len(snippets) = 2
    /\ Modules(snippets) = {"apple.py", "dup.py"}
    /\ snippets[1].title = snippets[2].title

\* C14: a loaded file is accepted only if its TITLE is a string and its run is callable
\* (DESCRIPTION is a string in every file of the universe); a file that has the attributes
\* with values of another kind is left out, so every catalog entry can be invoked.
EntriesAreInvocable ==
    \A i \in 1..Len(snippets) :
        /\ snippets[i].title.kind = "str"
        /\ File(snippets[i].module).callable

\* C16: every load at AtMenu leaves the catalog built from the directory as it is then,
\* the catalog changes at no other step, and while a snippet is running a change of the
\* directory changes neither the catalog nor the selection.
CatalogRebuiltAtMenuOnly ==
    [][/\ Loads => Modules(snippets') = WellFormed(files)
       /\ snippets' # snippets => pc = "AtMenu"
       /\ (pc \in {"command", "dispatch", "postrun"} /\ (files' # files \/ dirExists' # dirExists)) =>
              (snippets' = snippets /\ selected' = selected /\ pc' = pc)
      ]_vars

\* C18: whenever a snippet is running, the selection is one index k with
\* 0 <= k < len(catalog).
SelectedWithinCatalog ==
    pc \in {"command", "dispatch", "postrun"} =>
        /\ Len(selected) = 1
        /\ selected[1] \in 0..(Len(snippets) - 1)

SelectedWithinCatalog_witness ==
    /\ pc = "dispatch"
    /\ selected = <<1>>
    /\ Len(snippets) = 2
    /\ files = {}

\* C19: a load that leaves an empty catalog is followed by the no-snippets message and the
\* end of the session with no input read; the menu prompt is reached, and a selection
\* read, only with a catalog of at least one entry; nothing is read after the end.
EmptyCatalogEndsSession ==
    [][/\ (Loads /\ exc' = "none" /\ snippets' = <<>>) =>
              (pc' = "Terminated" /\ "no_snippets" \in screen' /\ event' = event)
       /\ pc' = "choice" => snippets' # <<>>
       /\ (event' # event /\ event'.at = "choice") => (pc = "choice" /\ snippets # <<>>)
       /\ pc = "Terminated" => event' = event
      ]_vars

EmptyCatalogEndsSession_witness ==
    /\ pc = "Terminated"
    /\ "no_snippets" \in screen
    /\ snippets = <<>>
    /\ event.at = "command"
    /\ dirExists /\ files = {}

(***************************************************************************)
(* Further properties of the todo snippet (checked under TodoSpec).        *)
(***************************************************************************)
\* C13: from an empty store, after any sequence of todo commands every persisted record
\* has a priority that is a positive integer (at least 1) and a status that is one of
\* todo, in progress, completed.
RecordsStayValid ==
    \A i \in 1..Len(todos) :
        /\ todos[i].priority \in Nat /\ todos[i].priority >= 1
        /\ todos[i].status \in {"todo", "in progress", "completed"}

\* C17: from an empty store, after any add, status change or remove the persisted records
\* are in strictly ascending order of priority, and list shows them in that order.
StoreAscendingByPriority ==
    /\ \A i, j \in 1..Len(todos) : i < j => todos[i].priority < todos[j].priority
    /\ (Cmd(args, "list") \/ args = <<U("list")>>) =>
           /\ listed = todos
           /\ out = (IF todos = <<>> THEN {"no_todos"} ELSE {"table"})

StoreAscendingByPriority_witness ==
    /\ Cmd(args, "list")
    /\ Len(listed) = 2
    /\ listed[1].title = <<W("A")>> /\ listed[1].priority = 1
    /\ listed[2].title = <<N(2)>> /\ listed[2].priority = 2
    /\ listed[2].status = "completed"

(***************************************************************************)
(* Properties of the JSON formatter (checked under JsonSpec).              *)
(***************************************************************************)
\* the argument is one of the clipboard words, in any case
IsSentinel(t) == t.k = "w" /\ t.s \in {"clipboard", "clip", "cb"}

\* the text the call's one argument names, where the call can read it
Readable(a) ==
    /\ Len(a) = 1
    /\ IF IsSentinel(a[1]) THEN clipboardOk ELSE open(a[1]).raised = "none"
SourceText(a) == IF IsSentinel(a[1]) THEN clipboard ELSE open(a[1]).text

\* the step reports the failure m and returns: nothing formatted, no prompt read, the
\* clipboard as it was
Reports(m) ==
    /\ jpc' = "idle"
    /\ m \in jout' /\ "formatted" \notin jout' /\ "copied" \notin jout'
    /\ formatted' = <<>>
    /\ response' = response
    /\ clipboard' = clipboard
    /\ jexc' = "none"

\* C15: the formatter reaches its copy prompt only after it read and parsed the source,
\* with the 2-space re-serialization printed; a wrong argument count, a source not found,
\* an empty clipboard or a malformed document is reported with no prompt read and the
\* clipboard untouched; the clipboard is written only at the prompt, with the formatted
\* text, and only when the trimmed answer is y or yes in any case.
CopyOnlyAfterParse ==
    [][LET a == jargs' IN
       /\ (jpc = "idle" /\ jpc' = "prompt") =>
              /\ Readable(a)
              /\ SourceText(a).syntax = "json"
              /\ formatted' = <<Document(SourceText(a).value, "indent2", FALSE)>>
              /\ "formatted" \in jout'
              /\ clipboard' = clipboard /\ response' = response
       /\ jpc = "idle" =>
              /\ Len(a) # 1 => Reports("expected_1_argument")
              /\ (Len(a) = 1 /\ ~IsSentinel(a[1]) /\ open(a[1]).raised = "FileNotFoundError") =>
                     Reports("not_found")
              /\ (Readable(a) /\ IsSentinel(a[1]) /\ SourceText(a).syntax = "blank") =>
                     Reports("clipboard_empty")
              /\ (Readable(a) /\ SourceText(a).syntax = "malformed") =>
                     Reports("invalid_json")
       /\ (clipboard' # clipboard \/ "copied" \in jout') =>
              /\ jpc = "prompt"
              /\ response'.kind = "line" /\ Says(response'.line, {"y", "yes"})
              /\ formatted # <<>> /\ clipboard' = formatted[1]
       /\ (jpc = "prompt" /\ ~(response'.kind = "line" /\ Says(response'.line, {"y", "yes"}))) =>
              clipboard' = clipboard
      ]_vars

CopyOnlyAfterParse_witness ==
    /\ jpc = "idle"
    /\ jargs = <<W("cafe.json")>>
    /\ response = Typed("copy", Line(<<U("yes")>>, TRUE))
    /\ "copied" \in jout
    /\ clipboard = Document(2, "indent2", FALSE)

====
